---- MODULE Spec2Model ----
(***************************************************************************)
(* A state-machine model of DTEInsightExtractor                            *)
(* (src/dte_insight_extractor.py): the request gateway `api`, `login`, the *)
(* boundary search `_find_site_start_date`, the batch primitive            *)
(* `download_site_data_at`, the pagination loop `download_site_data` and   *)
(* the orchestrator `download_all_data`, driven by a client (who also      *)
(* holds the profile `login` returned) and by an upstream service that     *)
(* answers each HTTP request.                                              *)
(*                                                                         *)
(* Instants are integers: clock ticks since 2000-01-01T00:00:00Z, with     *)
(* Resolution ticks per second (a datetime has 10^6).  Epoch seconds, as   *)
(* sent in startTime and received in a row's d, count from 1970.           *)
(***************************************************************************)
EXTENDS Integers, Sequences, FiniteSets, TLC

(* ------------------------------ bounds -------------------------------- *)

\* Clock ticks per second.
Resolution == 2
\* 'now' falls on day 1..MaxDay after 2000-01-01.
MaxDay == 8
\* The upstream answers one api call with 502 at most MaxRetries times.
MaxRetries == 2
\* Operations the client starts in one behaviour.
MaxCalls == 2
\* Rows of a site's dataset lie within -1..MaxOffset seconds of DataDay.
MaxOffset == 2
\* A site's dataset holds at most MaxRows rows.
MaxRows == 3
\* Rows the upstream returns at most in one batch (the code asks for 1440).
BatchLimit == 2
\* Nested frames of api the interpreter's stack holds (CPython allows about
\* 1000 frames in all); it exceeds MaxRetries.
RecursionLimit == 4

(* ------------------------- program constants -------------------------- *)

DefaultDelay == 2
RetryIncrement == 60
BadGateway == 502
NotFound == 404
DaySeconds == 86400
Epoch2000 == 946684800
DefaultCount == 1440

(* ------------------------------- time --------------------------------- *)

\* timedelta(days=1), in ticks.
Day == DaySeconds * Resolution

Abs(x) == IF x < 0 THEN -x ELSE x

\* math.ceil(delta.total_seconds() / 2) for a delta of T ticks, in seconds.
CeilHalfSeconds(T) == (T + 2 * Resolution - 1) \div (2 * Resolution)

\* midpoint.replace(hour=0, minute=0, second=0, microsecond=0)
Midnight(t) == t - (t % Day)

\* The probed midpoint of one iteration of the binary search.
Midpoint(l, r) == Midnight(l + CeilHalfSeconds(r - l) * Resolution)

\* int(start_date.timestamp()): epoch seconds, truncated.
Timestamp(t) == Epoch2000 + (t \div Resolution)

\* datetime.fromtimestamp(int(row['d']), timezone.utc)
FromTimestamp(d) == (d - Epoch2000) * Resolution

\* timedelta(seconds=1)
OneSecond == Resolution

\* The calendar day (counted from 2000-01-01) an instant falls on.
DayOf(t) == t \div Day

(* ------------------------------ values -------------------------------- *)

NoToken == "None"
NoProfile == [CustomerID |-> 0, CustomerSites |-> <<>>, present |-> FALSE]

Profile(cid, sites) == [CustomerID |-> cid, CustomerSites |-> sites, present |-> TRUE]

\* The profiles an account may have: no site, one site, two sites.
Profiles ==
    { Profile(7, <<>>),
      Profile(7, <<[CustomerSiteID |-> 11]>>),
      Profile(7, <<[CustomerSiteID |-> 11], [CustomerSiteID |-> 12]>>) }

NoExc == <<"none", 0>>
ValueError == <<"ValueError", 0>>
TypeError == <<"TypeError", 0>>
RecursionError == <<"RecursionError", 0>>
HTTPError(status) == <<"HTTPError", status>>

\* A usage row {d: epoch seconds, u: usage}; u is counted in 1/2000 units.
Row(d, u) == [d |-> d, u |-> u]

\* (datetime.fromtimestamp(int(row['d']), utc), int(1000 * row['u']))
Reading(row) == <<FromTimestamp(row.d), row.u \div 2>>

(* ------------------------------- state -------------------------------- *)

VARIABLES
    token,       \* self._authorization_token
    profile,     \* self._cached_info
    pc,          \* where the client-visible operation in progress stands
    err,         \* the exception the last operation raised to the client
    calls,       \* operations the client has started
    call,        \* arguments of the innermost api() frame
    orig,        \* arguments of the outermost api() frame of this call
    headers,     \* the local `headers` of the innermost api() frame
    apc,         \* position inside api(): none, check, sleep, send, recv, ret, raise
    depth,       \* recursion depth of api(): the retries entered so far
    iolog,       \* sleeps, sends and replies of the current outermost api call
    wire,        \* the HTTP request last handed to session.request
    reply,       \* the response last received
    exc,         \* the exception api() raised to its caller
    left, right, \* locals of _find_site_start_date
    mid,         \* its local `midpoint`
    probed,      \* the midpoints it has probed, each with "the batch had rows"
    start_date,  \* local of download_site_data: the cursor
    emitted,     \* readings download_site_data has yielded for the current site
    batches,     \* length of each batch received by the pagination loop
    fetches,     \* startTime of each request sent by the pagination loop
    siteIdx,     \* position of download_all_data in CustomerSites
    results,     \* (site, readings) pairs download_all_data has yielded
    sent,        \* usage requests download_all_data has sent, runs collapsed
    account,     \* environment: the profile the lookup endpoint returns
    clock,       \* environment: what datetime.now(timezone.utc) returns
    firstDay,    \* environment: the rule answering boundary probes
    data,        \* environment: the rows the upstream holds for a site
    policy,      \* environment: how the upstream cuts a batch out of data
    outage,      \* environment: the upstream answers every request with 502
    returned,    \* the caller's dict: what login returned, as the caller left it
    shares       \* its keys whose value is the very object the cached dict holds

session == <<token, profile>>
client == <<pc, err, calls>>
gateway == <<call, orig, headers, apc, depth, iolog, wire, reply, exc>>
search == <<left, right, mid, probed>>
paging == <<start_date, emitted, batches, fetches>>
orchestr == <<siteIdx, results, sent>>
upstream == <<account, clock, firstDay, data, policy, outage>>
caller == <<returned, shares>>
vars == <<session, client, gateway, search, paging, orchestr, upstream, caller>>

(* ----------------------------- upstream ------------------------------- *)

\* firstDay = AnyDay: every probe may be answered either way.
AnyDay == 0 - 1

\* Epoch seconds of the rows a dataset may hold: around 2000-01-02T00:00:00Z.
Offsets == (0 - 1) .. MaxOffset
Stamps == { Epoch2000 + DaySeconds + k : k \in Offsets }
UVals == {2, 5}
Rows == { Row(d, u) : d \in Stamps, u \in UVals }

RowBefore(a, b) == a.d < b.d \/ (a.d = b.d /\ a.u < b.u)
MinRow(S) == CHOOSE a \in S : \A b \in S \ {a} : RowBefore(a, b)

RECURSIVE SortRows(_)
SortRows(S) == IF S = {} THEN <<>> ELSE <<MinRow(S)>> \o SortRows(S \ {MinRow(S)})

Take(s, n) == IF Len(s) <= n THEN s ELSE SubSeq(s, 1, n)

\* The batches the upstream may return for a pagination fetch at startTime.
PageBatches(startTime) ==
    LET eligible == { r \in data : r.d >= startTime } IN
    IF policy = "earliest"
    THEN { Take(SortRows(eligible), BatchLimit) }
    ELSE { SortRows(B) : B \in { X \in SUBSET eligible : Cardinality(X) <= BatchLimit } }

\* The batches the upstream may return for a boundary probe at startTime.
ProbeBatches(startTime) ==
    LET day == DayOf(FromTimestamp(startTime)) IN
    (IF firstDay = AnyDay \/ day < firstDay THEN { <<>> } ELSE {})
    \cup (IF firstDay = AnyDay \/ day >= firstDay THEN { <<Row(startTime, 2)>> } ELSE {})

Response(status, auth, body, rows) ==
    [status |-> status, Authorization |-> auth, json |-> body, rows |-> rows]

NoReply == Response(0, NoToken, NoProfile, <<>>)

\* 4xx and 5xx answers other than the empty-result 404.
Failures == { Response(s, NoToken, NoProfile, <<>>) : s \in {403, 500} }
    \cup { Response(BadGateway, NoToken, NoProfile, <<>>) : x \in { d \in {depth} : d < MaxRetries } }

UsageReplies(batchSet) ==
    { Response(200, NoToken, NoProfile, b) : b \in batchSet }
    \cup (IF <<>> \in batchSet THEN { Response(NotFound, NoToken, NoProfile, <<>>) } ELSE {})

\* response.headers['Authorization']: the upstream issues a fresh token to
\* each login, named here after the client's operation that asked for it.
IssuedToken == "tok" \o ToString(calls)

\* Every response the upstream may give to the request on the wire.
Replies ==
    IF outage THEN { Response(BadGateway, NoToken, NoProfile, <<>>) } ELSE
    Failures \cup
    CASE wire.url[1] = "login" -> { Response(200, IssuedToken, NoProfile, <<>>) }
      [] wire.url[1] = "lookup" -> { Response(200, NoToken, account, <<>>) }
      [] pc = "search" -> UsageReplies(ProbeBatches(wire.params.startTime))
      [] pc = "page" -> UsageReplies(PageBatches(wire.params.startTime))
      [] OTHER -> UsageReplies({ <<>> })

(* ---------------------------- api (25-47) ----------------------------- *)

NoParams == [startTime |-> 0, count |-> 0]
Kwargs(hdrs, params, json) == [headers |-> hdrs, params |-> params, json |-> json]
Args(method, url, authenticated, delay, kwargs) ==
    [method |-> method, url |-> url, authenticated |-> authenticated,
     delay |-> delay, kwargs |-> kwargs]
NoCall == Args("none", <<"none">>, FALSE, 0, Kwargs({}, NoParams, "none"))
NoWire == [method |-> "none", url |-> <<"none">>, headers |-> {},
           params |-> NoParams, json |-> "none"]

\* A caller enters api(...) with these arguments.
Enter(c) ==
    /\ call' = c
    /\ orig' = c
    /\ apc' = "check"
    /\ depth' = 0
    /\ iolog' = <<>>
    /\ headers' = {}
    /\ wire' = NoWire
    /\ reply' = NoReply
    /\ exc' = NoExc

\* The caller has taken the outcome: the frames of the call are gone.
Leave ==
    /\ call' = NoCall
    /\ orig' = NoCall
    /\ apc' = "none"
    /\ depth' = 0
    /\ iolog' = <<>>
    /\ headers' = {}
    /\ wire' = NoWire
    /\ reply' = NoReply
    /\ exc' = NoExc

\* Mutant: the token check is gone.
AuthNeverMissing == FALSE

\* line 28: authenticated and self._authorization_token is None
AuthMissing == call.authenticated /\ token = NoToken

\* lines 28-34: the token check, then the headers of this frame.
ApiCheck ==
    /\ apc = "check"
    /\ IF AuthMissing
       THEN /\ apc' = "raise"
            /\ exc' = ValueError
            /\ UNCHANGED <<call, headers>>
       ELSE /\ apc' = "sleep"
            /\ headers' = call.kwargs.headers \cup
                   (IF call.authenticated THEN { <<"authorization", token>> } ELSE {})
            /\ call' = [call EXCEPT !.kwargs.headers = {}]
            /\ exc' = NoExc
    /\ UNCHANGED <<orig, depth, iolog, wire, reply>>
    /\ UNCHANGED <<session, client, search, paging, orchestr, upstream, caller>>

\* Mutant: only the first attempt sleeps.
ApiSleepFirstOnly ==
    /\ apc = "sleep"
    /\ iolog' = IF depth = 0 THEN Append(iolog, <<"sleep", call.delay>>) ELSE iolog
    /\ apc' = "send"
    /\ UNCHANGED <<call, orig, headers, depth, wire, reply, exc>>
    /\ UNCHANGED <<session, client, search, paging, orchestr, upstream, caller>>

\* line 36: time.sleep(delay)
ApiSleep ==
    /\ apc = "sleep"
    /\ iolog' = Append(iolog, <<"sleep", call.delay>>)
    /\ apc' = "send"
    /\ UNCHANGED <<call, orig, headers, depth, wire, reply, exc>>
    /\ UNCHANGED <<session, client, search, paging, orchestr, upstream, caller>>

\* A sequence with x appended unless x is already its last element.
AppendNew(q, x) == IF q # <<>> /\ q[Len(q)] = x THEN q ELSE Append(q, x)

\* The usage requests of download_all_data, as <<site id, caller>>: a
\* boundary probe comes from "search", a pagination fetch from "page".
Logged(q, request) ==
    IF pc \in {"search", "page"} THEN AppendNew(q, <<request.url[3], pc>>) ELSE q

\* line 38: self.session.request(method, base + url, headers=headers, **kwargs)
ApiSend ==
    /\ apc = "send"
    /\ wire' = [method |-> call.method, url |-> call.url, headers |-> headers,
                params |-> call.kwargs.params, json |-> call.kwargs.json]
    /\ iolog' = Append(iolog, <<"send", call.delay>>)
    /\ sent' = Logged(sent, wire')
    /\ apc' = "recv"
    /\ UNCHANGED <<call, orig, headers, depth, reply, exc>>
    /\ UNCHANGED <<siteIdx, results>>
    /\ UNCHANGED <<session, client, search, paging, upstream, caller>>

\* Mutant: every 5xx is retried.
IsTransientAny5xx(status) == status >= 500

\* line 40: the status that is retried.
IsTransient(status) == status = BadGateway

\* response.raise_for_status(): 4xx and 5xx raise.
IsErrorStatus(status) == status >= 400 /\ status < 600

\* Mutant: the retry keeps the delay.
RetryDelayFlat(delay) == delay

\* line 43: delay=60 + delay
RetryDelay(delay) == RetryIncrement + delay

\* line 43: the recursive call finds no room for one more frame, and the
\* interpreter raises RecursionError through every frame of api.
StackFull == depth + 1 >= RecursionLimit

\* lines 38-47: the response arrives; retry, raise or return.
ApiReply ==
    /\ apc = "recv"
    /\ \E r \in Replies :
        /\ reply' = r
        /\ iolog' = Append(iolog, <<"reply", r.status>>)
        /\ IF IsTransient(r.status) /\ StackFull
           THEN /\ apc' = "raise"
                /\ exc' = RecursionError
                /\ UNCHANGED <<call, depth>>
           ELSE IF IsTransient(r.status)
           THEN /\ call' = [call EXCEPT !.delay = RetryDelay(call.delay)]
                /\ depth' = depth + 1
                /\ apc' = "check"
                /\ exc' = NoExc
           ELSE IF IsErrorStatus(r.status)
           THEN /\ apc' = "raise"
                /\ exc' = HTTPError(r.status)
                /\ UNCHANGED <<call, depth>>
           ELSE /\ apc' = "ret"
                /\ exc' = NoExc
                /\ UNCHANGED <<call, depth>>
    /\ UNCHANGED <<orig, headers, wire>>
    /\ UNCHANGED <<session, client, search, paging, orchestr, upstream, caller>>

(* ------------------------------ client -------------------------------- *)

\* The client may start an operation when none is in progress.
CanStart == pc \in {"idle", "returned", "raised"} /\ calls < MaxCalls

\* Locals of an operation that has not run.
FreshSearch == left' = 0 /\ right' = 0 /\ mid' = 0 /\ probed' = {}
FreshPaging == start_date' = 0 /\ emitted' = <<>> /\ batches' = <<>> /\ fetches' = <<>>
FreshOrchestr == siteIdx' = 0 /\ results' = <<>> /\ sent' = <<>>

Begin ==
    /\ calls' = calls + 1
    /\ FreshSearch /\ FreshPaging

\* An exception leaves the operation and reaches the client.
Propagate(e) ==
    /\ pc' = "raised"
    /\ err' = e
    /\ UNCHANGED calls

Credentials == "credentials"

(* --------------------------- login (49-68) ---------------------------- *)

\* lines 50-54: the login request.
Login ==
    /\ CanStart
    /\ Begin
    /\ err' = NoExc
    /\ FreshOrchestr
    /\ pc' = "login"
    /\ Enter(Args("post", <<"login", 17>>, FALSE, DefaultDelay,
                  Kwargs({}, NoParams, Credentials)))
    /\ UNCHANGED <<session, upstream, caller>>

\* lines 51-62: the token is cached, then the lookup request.
LoginToken ==
    /\ pc = "login"
    /\ apc \in {"ret", "raise"}
    /\ IF apc = "raise"
       THEN /\ Propagate(exc)
            /\ Leave
            /\ UNCHANGED token
       ELSE /\ token' = reply.Authorization
            /\ pc' = "lookup"
            /\ Enter(Args("post", <<"lookup", 17>>, FALSE, DefaultDelay,
                          Kwargs({}, NoParams, Credentials)))
            /\ UNCHANGED <<err, calls>>
    /\ UNCHANGED <<profile, search, paging, orchestr, upstream, caller>>

\* line 68: info.copy() makes a new dict holding the same values: a value
\* that is itself a list is the same list object in both dicts.
SharedByCopy(info) == IF info.present THEN {"CustomerSites"} ELSE {}

\* Mutant: a failed lookup rolls the token back.
LoginProfileRollsBack ==
    /\ pc = "lookup"
    /\ apc \in {"ret", "raise"}
    /\ IF apc = "raise"
       THEN /\ Propagate(exc)
            /\ token' = NoToken
            /\ UNCHANGED <<profile, caller>>
       ELSE /\ profile' = reply.json
            /\ returned' = reply.json
            /\ shares' = SharedByCopy(reply.json)
            /\ pc' = "returned"
            /\ UNCHANGED <<token, err, calls>>
    /\ Leave
    /\ UNCHANGED <<search, paging, orchestr, upstream>>

\* lines 59-68: the profile is cached and a copy returned.
LoginProfile ==
    /\ pc = "lookup"
    /\ apc \in {"ret", "raise"}
    /\ IF apc = "raise"
       THEN /\ Propagate(exc)
            /\ UNCHANGED <<profile, caller>>
       ELSE /\ profile' = reply.json
            /\ returned' = reply.json
            /\ shares' = SharedByCopy(reply.json)
            /\ pc' = "returned"
            /\ UNCHANGED <<err, calls>>
    /\ Leave
    /\ UNCHANGED <<token, search, paging, orchestr, upstream>>

(* ------------------------ api, called directly ------------------------ *)

Delays == {0, DefaultDelay}
ClientHeaders == { {}, { <<"x-client", "cli">> } }

\* The client calls api(...) itself.
CallApi ==
    /\ CanStart
    /\ Begin
    /\ err' = NoExc
    /\ FreshOrchestr
    /\ pc' = "direct"
    /\ \E a \in BOOLEAN, d \in Delays, h \in ClientHeaders :
        Enter(Args("get", <<"usage", 7, 11>>, a, d,
                   Kwargs(h, [startTime |-> Epoch2000, count |-> DefaultCount], "none")))
    /\ UNCHANGED <<session, upstream, caller>>

CallApiDone ==
    /\ pc = "direct"
    /\ apc \in {"ret", "raise"}
    /\ IF apc = "raise"
       THEN Propagate(exc)
       ELSE pc' = "returned" /\ UNCHANGED <<err, calls>>
    /\ Leave
    /\ UNCHANGED <<session, search, paging, orchestr, upstream, caller>>

(* ------------------ download_site_data_at (93-108) -------------------- *)

\* Mutant: the sites are taken from the end of the list.
UsageCallReversed(startTime) ==
    Args("get", <<"usage", profile.CustomerID,
                  profile.CustomerSites[Len(profile.CustomerSites) + 1 - siteIdx].CustomerSiteID>>,
         TRUE, DefaultDelay,
         Kwargs({}, [startTime |-> startTime, count |-> DefaultCount], "none"))

\* lines 95-100: the usage request for the site in hand.
UsageCall(startTime) ==
    Args("get", <<"usage", profile.CustomerID,
                  profile.CustomerSites[siteIdx].CustomerSiteID>>,
         TRUE, DefaultDelay,
         Kwargs({}, [startTime |-> startTime, count |-> DefaultCount], "none"))

\* Mutant: the 404 is not caught.
NotFoundUncaught == FALSE

\* lines 101-103: the HTTPError that is turned into an empty batch.
NotFoundCaught == apc = "raise" /\ exc = HTTPError(NotFound)

\* Mutant: a server error is taken for an empty batch as well.
BatchFailsOnClientError == apc = "raise" /\ ~NotFoundCaught /\ exc[2] < 500

\* lines 101-105: every other exception leaves download_site_data_at.
BatchFails == apc = "raise" /\ ~NotFoundCaught

\* lines 107-108: the readings of the batch, in the order of the rows.
Batch ==
    IF apc = "ret"
    THEN [i \in 1 .. Len(reply.rows) |-> Reading(reply.rows[i])]
    ELSE <<>>

(* ------------------ _find_site_start_date (70-91) --------------------- *)

\* line 76: the loop condition.
Searching(l, r) == Abs(l - r) > Day

\* lines 76-80 and 89-91: the next probe is sent, or the loop ends and
\* download_site_data starts paging at the value returned.
SearchStep ==
    /\ pc = "search"
    /\ apc = "none"
    /\ IF Searching(left, right)
       THEN /\ mid' = Midpoint(left, right)
            /\ Enter(UsageCall(Timestamp(mid')))
            /\ UNCHANGED <<pc, start_date>>
       ELSE /\ start_date' = right
            /\ pc' = "page"
            /\ UNCHANGED <<mid, gateway>>
    /\ UNCHANGED <<left, right, probed, emitted, batches, fetches>>
    /\ UNCHANGED <<session, err, calls, orchestr, upstream, caller>>

\* Mutant: the branches are swapped.
MoveLeftOnRows(batch) == batch # <<>>

\* lines 84-87: which bound moves to the midpoint.
MoveLeft(batch) == batch = <<>>

\* lines 80-87: the probe's batch arrives and one bound moves.
SearchProbe ==
    /\ pc = "search"
    /\ apc \in {"ret", "raise"}
    /\ IF BatchFails
       THEN /\ Propagate(exc)
            /\ UNCHANGED <<left, right, probed>>
       ELSE /\ IF MoveLeft(Batch)
               THEN left' = mid /\ UNCHANGED right
               ELSE right' = mid /\ UNCHANGED left
            /\ probed' = probed \cup { <<mid, Batch # <<>>>> }
            /\ UNCHANGED client
    /\ Leave
    /\ UNCHANGED <<mid, session, paging, orchestr, upstream, caller>>

(* -------------------- download_site_data (110-122) -------------------- *)

\* line 114: the request of one pass of the pagination loop.
PageFetch ==
    /\ pc = "page"
    /\ apc = "none"
    /\ Enter(UsageCall(Timestamp(start_date)))
    /\ fetches' = Append(fetches, Timestamp(start_date))
    /\ UNCHANGED <<start_date, emitted, batches>>
    /\ UNCHANGED <<session, client, search, orchestr, upstream, caller>>

\* Mutant: the loop ends on a batch shorter than the upstream's limit.
LastBatchShort(batch) == Len(batch) < BatchLimit

\* line 119: the loop ends on this batch.
LastBatch(batch) == batch = <<>>

\* Mutant: the cursor goes past the first reading of the batch.
NextStartFirst(batch) == batch[1][1] + OneSecond

\* Mutant: the cursor goes two seconds past the last reading.
NextStartSkip(batch) == batch[Len(batch)][1] + 2 * OneSecond

\* line 122: the cursor after a batch.
NextStart(batch) == batch[Len(batch)][1] + OneSecond

\* lines 114-122 and 126-127: the batch is yielded; the loop goes on, or the
\* site is finished and download_all_data yields it and takes the next one.
PageBatch ==
    /\ pc = "page"
    /\ apc \in {"ret", "raise"}
    /\ IF BatchFails
       THEN /\ Propagate(exc)
            /\ UNCHANGED <<paging, orchestr>>
       ELSE /\ emitted' = emitted \o Batch
            /\ batches' = Append(batches, Len(Batch))
            /\ UNCHANGED <<fetches, err, calls>>
            /\ IF LastBatch(Batch)
               THEN /\ results' = Append(results,
                           <<profile.CustomerSites[siteIdx], emitted'>>)
                    /\ siteIdx' = siteIdx + 1
                    /\ UNCHANGED sent
                    /\ pc' = IF siteIdx' <= Len(profile.CustomerSites)
                             THEN "site" ELSE "returned"
                    /\ UNCHANGED start_date
               ELSE /\ start_date' = NextStart(Batch)
                    /\ UNCHANGED <<pc, orchestr>>
    /\ Leave
    /\ UNCHANGED <<session, search, upstream, caller>>

(* -------------------- download_all_data (125-127) --------------------- *)

\* line 126: the loop over the cached profile's sites is entered.
DownloadAll ==
    /\ CanStart
    /\ Begin
    /\ IF ~profile.present
       THEN pc' = "raised" /\ err' = TypeError /\ siteIdx' = 0
       ELSE /\ siteIdx' = 1
            /\ err' = NoExc
            /\ pc' = IF profile.CustomerSites = <<>> THEN "returned" ELSE "site"
    /\ results' = <<>>
    /\ sent' = <<>>
    /\ UNCHANGED <<session, gateway, upstream, caller>>

\* lines 127, 111 and 71-74: the next site's boundary search starts.
SiteBegin ==
    /\ pc = "site"
    /\ left' = 0
    /\ right' = clock
    /\ mid' = 0
    /\ probed' = {}
    /\ FreshPaging
    /\ pc' = "search"
    /\ UNCHANGED <<session, err, calls, gateway, orchestr, upstream, caller>>

(* ------------------- the caller of login (59-68) ---------------------- *)

OtherSite == [CustomerSiteID |-> 12]

\* What a list may look like after the caller changed it in place: cleared,
\* its last element removed, an element appended, its first element's id set.
InPlace(sites) ==
    { <<>> }
    \cup (IF sites # <<>> THEN { SubSeq(sites, 1, Len(sites) - 1),
                                 [sites EXCEPT ![1] = OtherSite] } ELSE {})
    \cup (IF Len(sites) < 2 THEN { Append(sites, OtherSite) } ELSE {})

\* Between operations the caller changes the list under 'CustomerSites' of
\* the dict login returned, in place: whoever holds that list sees the change.
CallerMutates ==
    /\ pc \in {"returned", "raised"}
    /\ returned.present
    /\ \E sites \in InPlace(returned.CustomerSites) \ {returned.CustomerSites} :
        /\ returned' = [returned EXCEPT !.CustomerSites = sites]
        /\ profile' = IF "CustomerSites" \in shares
                       THEN [profile EXCEPT !.CustomerSites = sites]
                       ELSE profile
    /\ UNCHANGED <<token, shares>>
    /\ UNCHANGED <<client, gateway, search, paging, orchestr, upstream>>

\* Between operations the caller assigns to a key of the dict login returned:
\* that dict alone changes, and the key's value is no longer a shared one.
CallerRebinds ==
    /\ pc \in {"returned", "raised"}
    /\ returned.present
    /\ \/ /\ returned' = [returned EXCEPT !.CustomerID = 8]
          /\ returned.CustomerID # 8
          /\ UNCHANGED shares
       \/ /\ returned' = [returned EXCEPT !.CustomerSites = <<>>]
          /\ shares' = shares \ {"CustomerSites"}
          /\ "CustomerSites" \in shares
    /\ UNCHANGED <<session, client, gateway, search, paging, orchestr, upstream>>

(* --------------------------- specifications --------------------------- *)

TimesOfDay ==
    { 0, 1, (DaySeconds \div 2) * Resolution, (DaySeconds - 2) * Resolution,
      (DaySeconds - 2) * Resolution + 1, Day - 1 }

Clocks == { d * Day + t : d \in 2 .. MaxDay, t \in TimesOfDay }

DataSets == { X \in SUBSET Rows : Cardinality(X) <= MaxRows }

OneSite == { p \in Profiles : Len(p.CustomerSites) = 1 }

Start(accounts, clocks, firstDays, dataSets, policies) ==
    /\ token = NoToken
    /\ profile = NoProfile
    /\ pc = "idle"
    /\ err = NoExc
    /\ calls = 0
    /\ call = NoCall
    /\ orig = NoCall
    /\ headers = {}
    /\ apc = "none"
    /\ depth = 0
    /\ iolog = <<>>
    /\ wire = NoWire
    /\ reply = NoReply
    /\ exc = NoExc
    /\ left = 0 /\ right = 0 /\ mid = 0 /\ probed = {}
    /\ start_date = 0 /\ emitted = <<>> /\ batches = <<>> /\ fetches = <<>>
    /\ siteIdx = 0 /\ results = <<>> /\ sent = <<>>
    /\ returned = NoProfile /\ shares = {}
    /\ account \in accounts
    /\ clock \in clocks
    /\ firstDay \in firstDays
    /\ data \in dataSets
    /\ policy \in policies

\* The upstream is up: a 502 is a passing answer.
InitWith(accounts, clocks, firstDays, dataSets, policies) ==
    Start(accounts, clocks, firstDays, dataSets, policies) /\ outage = FALSE

\* login and download_all_data, as the program's main block drives them.
Extract ==
    \/ Login \/ LoginToken \/ LoginProfile
    \/ DownloadAll \/ SiteBegin
    \/ SearchStep \/ SearchProbe
    \/ PageFetch \/ PageBatch
    \/ ApiCheck \/ ApiSleep \/ ApiSend \/ ApiReply

\* Every public operation, api included, in any order.
Next == Extract \/ CallApi \/ CallApiDone

\* The whole program against a small upstream.
Init == InitWith(Profiles, { 2 * Day + 1 }, {1, AnyDay}, { {}, { Row(Epoch2000 + DaySeconds, 2) } },
                 {"earliest"})
Spec == Init /\ [][Next]_vars

\* The same with a caller that changes the profile login returned to it.
NextCaller == Next \/ CallerMutates \/ CallerRebinds
SpecCaller == Init /\ [][NextCaller]_vars

\* api called by the client against an upstream that is persistently
\* degraded: every attempt of every request is answered with 502.
Direct == CallApi \/ CallApiDone \/ ApiCheck \/ ApiSleep \/ ApiSend \/ ApiReply
InitOutage ==
    Start(Profiles, { 2 * Day + 1 }, {1, AnyDay}, { {}, { Row(Epoch2000 + DaySeconds, 2) } },
          {"earliest"}) /\ outage = TRUE
SpecOutage == InitOutage /\ [][Direct]_vars

\* The boundary search against every clock reading and every first-data day
\* (firstDay past the clock's day: no data anywhere; AnyDay: arbitrary answers).
InitSearch == InitWith(OneSite, Clocks, (0 .. (MaxDay + 1)) \cup {AnyDay}, { {} }, {"earliest"})
SpecSearch == InitSearch /\ [][Extract]_vars

\* The program keeps running and the upstream answers every request.
FairSpecSearch == SpecSearch /\ WF_vars(Extract)

\* The pagination loop, started at 2000-01-02T00:00:00Z by a search that finds
\* that day, against every dataset and both ways of cutting a batch.
InitPage == InitWith(OneSite, { 2 * Day + (DaySeconds \div 2) * Resolution }, {1}, DataSets,
                     {"earliest", "ascending"})
SpecPage == InitPage /\ [][Extract]_vars

\* The same against the upstream that returns the earliest rows at or after
\* startTime; the program keeps running and every request is answered.
InitEarliest == InitWith(OneSite, { 2 * Day + (DaySeconds \div 2) * Resolution }, {1}, DataSets,
                         {"earliest"})
FairSpecEarliest == InitEarliest /\ [][Extract]_vars /\ WF_vars(Extract)

(* ------------------------------- claims ------------------------------- *)

\* _find_site_start_date has returned and download_site_data has not yet
\* fetched: start_date holds the value returned.
SearchReturned == pc = "page" /\ fetches = <<>>

\* The upstream answers probes by a first-data day D in [2000-01-01, now).
FirstDayInRange == firstDay \in 0 .. DayOf(clock) /\ firstDay * Day < clock

\* C1: whenever probes are answered "empty iff before D" for a first-data day
\* D in [2000-01-01, now), _find_site_start_date returns D at midnight UTC.
C1_ReturnsFirstDay ==
    (SearchReturned /\ FirstDayInRange) => start_date = firstDay * Day

\* C2: from every point of the boundary search, whatever the upstream
\* answers and whatever the clock read, the search eventually ends (it
\* returns, or a fatal error leaves it).
C2_SearchTerminates == (pc = "search") ~> (pc # "search")

RECURSIVE Sum(_)
Sum(q) == IF q = <<>> THEN 0 ELSE q[1] + Sum(Tail(q))

\* The pagination loop of the current site has ended on an empty batch.
PageFinished == pc \in {"site", "returned"} /\ batches # <<>>

\* C3: the startTime of successive pagination fetches is strictly increasing,
\* each being one second past the last reading of the batch before it, and no
\* reading is emitted twice.
C3_CursorAdvances ==
    /\ \A i \in 1 .. Len(fetches) - 1 :
         /\ fetches[i] < fetches[i + 1]
         /\ i <= Len(batches)
         /\ batches[i] > 0
         /\ fetches[i + 1] =
              Timestamp(emitted[Sum(SubSeq(batches, 1, i))][1]) + 1
    /\ \A i, j \in 1 .. Len(emitted) : i # j => emitted[i] # emitted[j]

C3_Witness == Len(fetches) >= 3 /\ Len(emitted) >= 3

\* The readings of the rows at or after the instant the loop started at.
Expected == LET rows == SortRows({ r \in data : r.d >= Timestamp(right) })
            IN [i \in 1 .. Len(rows) |-> Reading(rows[i])]

DistinctStamps == \A a, b \in data : a.d = b.d => a = b

\* C4 as claimed: against an upstream returning the earliest rows, the loop
\* ends having emitted exactly the readings at or after its start, in order.
C4_EmitsAll == (PageFinished /\ policy = "earliest") => emitted = Expected

\* C4 as amended: the same for a dataset with pairwise distinct timestamps,
\* and the loop does end.
C4_EmitsAllDistinct ==
    /\ []((PageFinished /\ policy = "earliest" /\ DistinctStamps) => emitted = Expected)
    /\ (pc = "page" /\ policy = "earliest" /\ DistinctStamps) ~> (pc # "page")

C4_Witness ==
    /\ PageFinished /\ policy = "earliest" /\ DistinctStamps
    /\ Len(batches) >= 3 /\ emitted = Expected

\* C5: only the last batch of the loop is empty, the loop ends on it, and
\* one request is sent per batch: k non-empty batches cost k+1 fetches.
C5_EndsAtFirstEmpty ==
    /\ \A i \in 1 .. Len(batches) - 1 : batches[i] > 0
    /\ Len(emitted) = Sum(batches)
    /\ PageFinished => batches[Len(batches)] = 0 /\ Len(fetches) = Len(batches)
    /\ (batches # <<>> /\ batches[Len(batches)] > 0) => pc \in {"page", "raised"}
    /\ pc = "page" =>
         /\ \A i \in 1 .. Len(batches) : batches[i] > 0
         /\ Len(fetches) = Len(batches) + (IF apc = "none" THEN 0 ELSE 1)

C5_Witness == PageFinished /\ Len(batches) = 3 /\ Len(fetches) = 3

\* The usage request came back with nothing: a 404, or a 200 with [].
Got404 == apc = "raise" /\ exc = <<"HTTPError", 404>>
GotEmpty200 == apc = "ret" /\ reply.status = 200 /\ reply.rows = <<>>
GotFatal == apc = "raise" /\ exc[1] = "HTTPError" /\ exc[2] # 404

\* What follows an empty batch: the search moves left to the midpoint; the
\* pagination loop ends, yielding the site with what was emitted.
EmptyBatchStep ==
    /\ pc = "search" =>
         left' = mid /\ right' = right /\ pc' = "search" /\ err' = err
    /\ pc = "page" =>
         /\ pc' \in {"site", "returned"}
         /\ emitted' = emitted
         /\ results' = Append(results, <<profile.CustomerSites[siteIdx], emitted>>)
         /\ err' = err

\* C6: a 404 on a usage fetch is followed by exactly what follows a 200 with
\* an empty array; any other error status reaches the client as an error.
C6_NotFoundIsEmpty ==
    [][ (pc \in {"search", "page"}) =>
          /\ Got404 => EmptyBatchStep
          /\ GotEmpty200 => EmptyBatchStep
          /\ GotFatal => (pc' = "raised" /\ err' = exc) ]_vars

C6_Witness == pc = "search" /\ Got404

\* The 502 answers received in the current api call.
Retries == Cardinality({ i \in 1 .. Len(iolog) : iolog[i] = <<"reply", 502>> })
Sends == Cardinality({ i \in 1 .. Len(iolog) : iolog[i][1] = "send" })

\* api has handed a response, or the error of one, to its caller.
ApiAnswered == apc = "ret" \/ (apc = "raise" /\ exc[1] = "HTTPError")

\* C7: after N answers of 502 and one other, N+1 requests were sent, the k-th
\* after a sleep of d + 60k, and the caller gets the outcome of the last.
C7_RetrySchedule ==
    ApiAnswered =>
      /\ Sends = Retries + 1
      /\ Len(iolog) = 3 * (Retries + 1)
      /\ \A k \in 0 .. Retries :
           /\ iolog[3 * k + 1] = <<"sleep", orig.delay + 60 * k>>
           /\ iolog[3 * k + 2][1] = "send"
           /\ iolog[3 * k + 3] = <<"reply", IF k < Retries THEN 502 ELSE reply.status>>
      /\ reply.status # 502
      /\ apc = "ret" => reply.status < 400
      /\ apc = "raise" => exc = <<"HTTPError", reply.status>>

C7_Witness == apc = "ret" /\ Retries = 2 /\ orig.delay = 0

\* C8: an authenticated call without a cached token raises at once: no sleep,
\* no request, no retry, and the session is left as it was.
C8_AuthRequired ==
    [][ /\ (apc = "check" /\ call.authenticated /\ token = "None") =>
             /\ apc' = "raise" /\ exc' = <<"ValueError", 0>>
             /\ iolog' = iolog /\ wire' = wire /\ depth' = depth
             /\ token' = token /\ profile' = profile
        /\ (apc' = "raise" /\ exc' = <<"ValueError", 0>>) =>
             iolog' = <<>> /\ depth' = 0 /\ wire'.method = "none" ]_vars

C8_Witness == apc = "raise" /\ exc = <<"ValueError", 0>> /\ pc = "direct"

\* C9: a 4xx or 5xx answer other than 502 makes api raise after that one
\* send; the call sends nothing more.
C9_NoRetryOnError ==
    [][ /\ (apc = "recv" /\ apc' # "recv" /\ reply'.status >= 400
              /\ reply'.status # 502) =>
             /\ apc' = "raise" /\ exc' = <<"HTTPError", reply'.status>>
             /\ depth' = depth
        /\ apc = "raise" => (iolog' = iolog \/ iolog' = <<>>) ]_vars

C9_Witness == apc = "raise" /\ exc = <<"HTTPError", 500>> /\ Sends = 1

\* C10: every request sent is immediately preceded by a sleep of the delay of
\* its attempt, and nothing reaches the wire but through such a send.
C10_SleepBeforeSend ==
    /\ \A i \in 1 .. Len(iolog) :
         iolog[i][1] = "send" => (i > 1 /\ iolog[i - 1] = <<"sleep", iolog[i][2]>>)
    /\ \A i \in 1 .. Len(iolog) :
         iolog[i][1] = "reply" => (i > 1 /\ iolog[i - 1][1] = "send")
    /\ wire.method # "none" => Sends >= 1

C10_Witness ==
    /\ Sends = 2 /\ call.authenticated
    /\ iolog[4] = <<"sleep", 62>> /\ iolog[5] = <<"send", 62>>

\* C11 as claimed: once set, the cached token and the cached profile are
\* never written again, by any operation.
C11_WrittenOnce ==
    [][ /\ token # "None" => token' = token
        /\ profile.present => profile' = profile ]_vars

\* C11 as amended: the token is written only by login's line 56 and the
\* profile only by its line 64, each once per call of login and never to
\* None; api, download_site_data_at, _find_site_start_date,
\* download_site_data and download_all_data leave both as they are.
C11_WrittenByLoginOnly ==
    [][ /\ token' # token =>
             (pc = "login" /\ pc' = "lookup" /\ token' # "None")
        /\ profile' # profile =>
             (pc = "lookup" /\ pc' = "returned" /\ profile'.present
                /\ token' = token)
        /\ (pc \in {"direct", "site", "search", "page"} \/ apc \in {"check", "sleep", "send", "recv"}) =>
             (token' = token /\ profile' = profile) ]_vars

\* The pagination loop fetches with the token and profile login cached.
C11_Witness ==
    /\ pc = "page" /\ Len(fetches) >= 1
    /\ token = "tok1" /\ profile = account

\* Position of a logged request in the order download_all_data should keep:
\* sites in profile order, and for one site the probes before the fetches.
SiteIndex(id) ==
    CHOOSE k \in 0 .. Len(profile.CustomerSites) :
        IF \E j \in 1 .. Len(profile.CustomerSites) :
               profile.CustomerSites[j].CustomerSiteID = id
        THEN k > 0 /\ profile.CustomerSites[k].CustomerSiteID = id
        ELSE k = 0
Rank(request) ==
    2 * SiteIndex(request[1]) + (IF request[2] = "search" THEN 0 ELSE 1)

\* C12: every usage request for a site is sent before any request for the
\* next site of the profile, within a site every boundary probe is sent
\* before the first pagination fetch, and the pairs come out in profile order.
C12_SitesInOrder ==
    /\ \A i \in 1 .. Len(sent) :
         /\ SiteIndex(sent[i][1]) > 0
         /\ i < Len(sent) => Rank(sent[i]) < Rank(sent[i + 1])
         /\ SiteIndex(sent[i][1]) <= siteIdx
    /\ (pc \in {"search", "page"} /\ apc = "recv") =>
         sent[Len(sent)] = <<profile.CustomerSites[siteIdx].CustomerSiteID, pc>>
    /\ \A k \in 1 .. Len(results) : results[k][1] = profile.CustomerSites[k]

C12_Witness ==
    /\ pc = "returned" /\ Len(results) = 2
    /\ sent = << <<11, "search">>, <<11, "page">>, <<12, "search">>, <<12, "page">> >>

\* C13: a usage fetch answered with an error status other than 502 and 404
\* while site k is extracted reaches the caller of download_all_data as that
\* error; no pair is yielded for site k, and nothing more is sent until the
\* client starts another operation.
C13_FatalAborts ==
    [][ /\ (pc \in {"search", "page"} /\ GotFatal) =>
             /\ pc' = "raised" /\ err' = exc
             /\ results' = results /\ Len(results) = siteIdx - 1
             /\ \A k \in 1 .. Len(results) :
                  results[k][1] # profile.CustomerSites[siteIdx]
             /\ sent' = sent /\ siteIdx' = siteIdx
             /\ apc' = "none" /\ wire'.method = "none"
        /\ (pc = "raised" /\ pc' = "raised") =>
             (apc' = "none" /\ sent' = sent /\ results' = results)
        /\ (pc = "raised" /\ pc' # "raised") => (calls' = calls + 1 /\ sent' = <<>>) ]_vars

\* The second site's pagination ended in a 500 after the first was yielded.
C13_Witness ==
    /\ pc = "raised" /\ err = <<"HTTPError", 500>>
    /\ siteIdx = 2 /\ Len(results) = 1
    /\ sent[Len(sent)] = <<12, "page">>

\* A step of the caller on the dict login returned.
CallerStep == returned' # returned /\ pc' = pc

\* C14: nothing the caller does to the profile login returned, its nested
\* list of sites included, changes the cached profile that download_all_data
\* and download_site_data_at read.
C14_DefensiveCopy ==
    [][ CallerStep => profile' = profile ]_vars

\* A probe of the boundary search is under way: mid is this iteration's midpoint.
Probing == pc = "search" /\ apc # "none"

\* C15: the midpoint probed in an iteration of the boundary search lies
\* strictly between left and right, whatever right is.
C15_MidpointInside == Probing => (left < mid /\ mid < right)

\* The probes of the current search that came back empty, and with rows.
EmptyProbes == { p[1] : p \in { q \in probed : ~q[2] } }
RowProbes == { p[1] : p \in { q \in probed : q[2] } }

\* C16: left is 2000-01-01 or a midpoint whose probe was empty, right is the
\* initial now or a midpoint whose probe had rows; when the search returns,
\* right - left is at most a day, and if any probe had rows the value
\* returned is a midpoint whose probe had rows.
C16_BoundsAreProbes ==
    pc \in {"search", "page"} =>
      /\ left = 0 \/ left \in EmptyProbes
      /\ right = clock \/ right \in RowProbes
      /\ pc = "page" =>
           /\ right - left <= Day /\ left - right <= Day
           /\ SearchReturned => start_date = right
           /\ RowProbes # {} => right \in RowProbes

C16_Witness ==
    /\ SearchReturned
    /\ left \in EmptyProbes /\ start_date \in RowProbes
    /\ Cardinality(probed) >= 3

\* C17: whatever the clock read and however the probes were answered, the
\* value _find_site_start_date returns is an instant at midnight UTC.
C17_ReturnsMidnight == SearchReturned => start_date = Midnight(start_date)

\* The request the caller of api asked for, as it goes on the wire.
Requested ==
    [method |-> orig.method, url |-> orig.url,
     headers |-> orig.kwargs.headers \cup
         (IF orig.authenticated THEN { <<"authorization", token>> } ELSE {}),
     params |-> orig.kwargs.params, json |-> orig.kwargs.json]

\* C18: every attempt of an api call, the retries after a 502 included, puts
\* the same request on the wire: the caller's method, path, authentication,
\* query parameters, JSON body and headers.
C18_RetryIdentical == wire.method # "none" => wire = Requested

\* C19: while every attempt is answered with 502, api keeps sending: it
\* neither returns nor raises to its caller, however many attempts it made.
C19_RetriesForever == (outage /\ iolog # <<>>) => apc \notin {"ret", "raise"}

\* No operation is in progress.
BetweenOperations == pc \in {"idle", "returned", "raised"}

\* C20: between operations the token and the profile are both absent or both
\* present; after a login that raised, from its login call or from its
\* lookup call, both are as before it, so a session that was unauthenticated
\* still fails the token check.
C20_BothOrNeither ==
    BetweenOperations => ((token = "None") <=> ~profile.present)

====
